---- MODULE Spec2Model ----
(***************************************************************************)
(* Asynchronous report-job orchestration of detailed_discovery:            *)
(*   - the Coordinator Lambda (lambda_coordinator.py): submit (POST) and   *)
(*     poll (GET) over the DynamoDB job table;                             *)
(*   - the Worker Lambda (lambda_event_handler.py): PROCESSING write,      *)
(*     three-way fan-out, upload loop, terminal update and response.       *)
(*   - the report producers (run_parallel.py and the generator modules):   *)
(*     normalization of the assessment, the compliance gate, content       *)
(*     generation with its fallback.                                       *)
(* The job table, the asynchronous invocation queue and the clock are the  *)
(* shared state; every Worker run keeps its own local state.               *)
(***************************************************************************)
EXTENDS Integers, Sequences, FiniteSets, TLC

\* ------------------------------------------------------------------ bounds
\* number of Worker runs: deliveries of the asynchronous invocation, which is
\* at-least-once, or direct invocations
MaxRuns == 2
\* length in characters of the business-owner answer of an assessment
MaxLen == 3
\* length in words of the business-problems answer of an assessment
MaxWords == 2

\* ------------------------------------------------------- program constants
\* PRESIGN_TTL_SEC default
PRESIGN_EXPIRES_SECS == 3600

\* Every access to the table is keyed by one job_id, so jobs do not interact:
\* the model follows the job of one accepted POST body. SubmitId is the uuid4 of
\* that POST; OtherId is a job id no POST generates (a client may poll it, and a
\* direct invocation of the Worker may run under it).
SubmitId == "job-a"
OtherId == "job-b"
Ids == {SubmitId, OtherId}
RunIds == 1..MaxRuns

\* the three report kinds, in the order the Worker submits and uploads them
KindSeq == <<"executive", "technical", "compliance">>
KindSet == {"executive", "technical", "compliance"}

BUCKET_NAME == "qubitz-detailed-discovery-bucket"
S3_PREFIX == "reports/"

VARIABLES
    store,       \* the DynamoDB table: job_id -> item, for the items that exist
    clock,       \* what datetime.utcnow() returns
    post,        \* the POST request in progress: where it is, and its job_id
    queue,       \* job_id -> deliveries so far of its asynchronous invocation,
                 \* for the job ids whose invoke call was accepted
    runs,        \* Worker runs: run id -> position, job_id and kind of invocation
                 \* of handler(event, context)
    out,         \* the response returned by the step just taken, if it returned one
    submitted,   \* history: job ids generated by a submit
    accepted,    \* history: job ids returned to a client in a 202 submit response
    finalized,   \* history: job ids for which a terminal update_item succeeded
    producer,    \* a report producer: the assessment it is given, which module
                 \* the executive generator was loaded from, and what its last
                 \* generate_report call did
    fan          \* one Worker run in detail: its three futures, the order in
                 \* which the tasks end, what the handler has collected, and
                 \* what the run ends with

vars == <<store, clock, post, queue, runs, out, submitted, accepted, finalized, producer, fan>>

\* ------------------------------------------------------------ job table
\* a text is a sequence of characters; a text the model does not look into is
\* a sequence of one element
EmptyResult == [present |-> FALSE, pdf_path |-> FALSE, company_name |-> <<>>, meta_company_name |-> <<>>]
EmptyResults == [k \in KindSet |-> EmptyResult]

\* table.put_item(Item={job_id, status, created_at, updated_at}): the item
\* replaces whatever was stored under the key. An attribute the item does not
\* carry holds a default value and is missing from attrs.
StatusItem(status, created, updated) ==
    [status |-> status, created_at |-> created, updated_at |-> updated,
     metadata |-> EmptyResults, s3_reports |-> <<>>, error_message |-> "",
     attrs |-> {"created_at"}]

PutItem(tbl, j, item) ==
    [x \in (DOMAIN tbl) \cup {j} |-> IF x = j THEN item ELSE tbl[x]]

\* a terminal update whose SET expression leaves out s3_reports
UpdatedItem_NoReports(tbl, j, status, updated, metadata, s3r) ==
    IF j \in DOMAIN tbl
    THEN [tbl[j] EXCEPT !.status = status, !.updated_at = updated,
                        !.metadata = metadata,
                        !.attrs = @ \cup {"metadata"}]
    ELSE [status |-> status, created_at |-> 0, updated_at |-> updated,
          metadata |-> metadata, s3_reports |-> <<>>, error_message |-> "",
          attrs |-> {"metadata"}]

\* table.update_item(Key, 'SET #status, updated_at, #metadata, s3_reports'):
\* one atomic write of the four attributes; the other attributes of an existing
\* item are kept, and an item that does not exist is created (an upsert).
UpdatedItem(tbl, j, status, updated, metadata, s3r) ==
    IF j \in DOMAIN tbl
    THEN [tbl[j] EXCEPT !.status = status, !.updated_at = updated,
                        !.metadata = metadata, !.s3_reports = s3r,
                        !.attrs = @ \cup {"metadata", "s3_reports"}]
    ELSE [status |-> status, created_at |-> 0, updated_at |-> updated,
          metadata |-> metadata, s3_reports |-> s3r, error_message |-> "",
          attrs |-> {"metadata", "s3_reports"}]

UpdateItem(tbl, j, status, updated, metadata, s3r) ==
    PutItem(tbl, j, UpdatedItem(tbl, j, status, updated, metadata, s3r))

TerminalStatuses == {"COMPLETED", "PARTIAL", "FAILED"}

NoOutput == [op |-> "none"]

\* ----------------------------------------------------- Coordinator: GET
\* s3_client.generate_presigned_url('get_object', Bucket, Key, ExpiresIn): the
\* signature covers the locator and the signing time.
PresignedUrl(bucket, key, now, ttl) ==
    [bucket |-> bucket, key |-> key, issued_at |-> now, expires_in |-> ttl]

\* a GET that hands out the URL stored with the report
FreshReport_Stored(report, now) ==
    [type |-> report.type, bucket |-> report.bucket, key |-> report.key,
     presigned_url |-> report.presigned_url,
     expires_in_seconds |-> PRESIGN_EXPIRES_SECS]

\* one entry of updated_reports, built from a stored report
FreshReport(report, now) ==
    [type |-> report.type, bucket |-> report.bucket, key |-> report.key,
     presigned_url |-> PresignedUrl(report.bucket, report.key, now, PRESIGN_EXPIRES_SECS),
     expires_in_seconds |-> PRESIGN_EXPIRES_SECS]

\* updated_reports: the stored reports, in their stored order, each with a fresh
\* URL; a report whose signing raises is skipped (signable: the kinds whose
\* signing succeeds).
RECURSIVE UpdatedReports(_, _, _)
UpdatedReports(s3r, now, signable) ==
    IF s3r = <<>> THEN <<>>
    ELSE (IF Head(s3r).type \in signable
          THEN <<FreshReport(Head(s3r), now)>> ELSE <<>>)
         \o UpdatedReports(Tail(s3r), now, signable)

IsExecutive(r) == r.type = "executive"

\* legacy_s3 = next((r for r in reports if r.type == 'executive'), None), as a
\* sequence of at most one element
LegacyS3(reports) ==
    LET ex == SelectSeq(reports, IsExecutive)
    IN  IF ex = <<>> THEN <<>> ELSE <<Head(ex)>>

BaseResponse(code, j) ==
    [op |-> "poll", statusCode |-> code, job_id |-> j, status |-> "-",
     created_at |-> 0, updated_at |-> 0,
     s3_reports |-> <<>>, s3 |-> <<>>, metadata |-> EmptyResults, reports_count |-> 0,
     error_message |-> "-", error |-> "-"]

\* a GET branch that treats only PENDING as still processing
PollStatusCode_OnlyPending(status) ==
    IF status = "PENDING" THEN 202 ELSE 200

\* which HTTP status the GET branch answers with for a stored status
PollStatusCode(status) ==
    IF status \in {"PENDING", "PROCESSING"} THEN 202 ELSE 200

\* the GET branch once job_id is given and get_item has answered
PollResponse(tbl, j, now, signable) ==
    IF j \notin DOMAIN tbl
    THEN [BaseResponse(404, j) EXCEPT !.error = "Job not found"]
    ELSE LET job == tbl[j]
             base == [BaseResponse(PollStatusCode(job.status), j) EXCEPT
                         !.status = job.status,
                         !.created_at = job.created_at,
                         !.updated_at = job.updated_at]
         IN  IF job.status \in {"COMPLETED", "PARTIAL"}
             THEN LET updated == UpdatedReports(job.s3_reports, now, signable)
                  IN  [base EXCEPT !.s3_reports = updated,
                                   !.s3 = LegacyS3(updated),
                                   !.metadata = job.metadata,
                                   !.reports_count = Len(updated)]
             ELSE IF job.status = "FAILED"
             THEN [base EXCEPT !.error_message =
                       IF "error_message" \in job.attrs
                       THEN job.error_message ELSE "Unknown error"]
             ELSE base

\* what a GET leaves alone: everything but the response
PollFrame ==
    UNCHANGED <<store, clock, post, queue, runs, submitted, accepted, finalized, producer, fan>>

\* a GET that stamps the record it reads
Poll_Touch(j) ==
    /\ out' = PollResponse(store, j, clock, KindSet)
    /\ store' = IF j \in DOMAIN store
                THEN [store EXCEPT ![j].updated_at = clock] ELSE store
    /\ UNCHANGED <<clock, post, queue, runs, submitted, accepted, finalized, producer, fan>>

\* GET /?job_id=j with the table readable and every URL signable
Poll(j) ==
    /\ out' = PollResponse(store, j, clock, KindSet)
    /\ PollFrame

\* GET / without job_id
PollMissingParam ==
    /\ out' = [BaseResponse(400, "-") EXCEPT !.error = "Missing job_id parameter"]
    /\ PollFrame

\* GET /?job_id=j when get_item raises, or when signing some of the URLs raises
PollDegraded(j) ==
    /\ \/ out' = [BaseResponse(500, j) EXCEPT !.error = "Failed to check job status"]
       \/ \E signable \in SUBSET KindSet :
             /\ signable # KindSet
             /\ out' = PollResponse(store, j, clock, signable)
    /\ PollFrame

\* ---------------------------------------------------- Coordinator: POST
Bodies == {"object", "non_object", "malformed"}

\* what the except branch of POST answers: 500 with "Failed to submit job: " + str(e),
\* for the exception e of json.loads (JSONDecodeError), of body.copy() / the item
\* assignment on a body that is no object (TypeError), or of the AWS client
SubmitError(e) ==
    [op |-> "submit", statusCode |-> 500, job_id |-> "-", status |-> "-",
     error |-> <<"Failed to submit job", e>>]
SubmitAccepted(j) ==
    [op |-> "submit", statusCode |-> 202, job_id |-> j, status |-> "PENDING",
     error |-> <<>>]

\* str(e) for the body of a POST that json.loads or the payload code rejects
BodyError(body) ==
    IF body = "malformed" THEN "JSONDecodeError" ELSE "TypeError"

NoPost == [pc |-> "idle", job_id |-> "-"]

\* the initial record of a job
PendingItem(now) == StatusItem("PENDING", now, now)

\* POST with a body json.loads rejects, or one that is JSON but no object
\* (payload['job_id'] = ... raises): the except branch answers 500
SubmitRejected ==
    /\ post.pc = "idle"
    /\ \E body \in Bodies \ {"object"} : out' = SubmitError(BodyError(body))
    /\ UNCHANGED <<store, clock, post, queue, runs, submitted, accepted, finalized, producer, fan>>

\* a POST that invokes the Worker without writing the initial record
SubmitPut_NoWrite ==
    /\ post.pc = "idle"
    /\ SubmitId \notin submitted
    /\ submitted' = submitted \cup {SubmitId}
    /\ clock' = clock + 1
    /\ post' = [pc |-> "invoke", job_id |-> SubmitId]
    /\ out' = NoOutput
    /\ UNCHANGED <<store, queue, runs, accepted, finalized, producer, fan>>

\* POST with a JSON object, up to the initial write: uuid4, then put_item
\* PENDING, which raises (500) or stores the record
SubmitPut ==
    /\ post.pc = "idle"
    /\ SubmitId \notin submitted
    /\ submitted' = submitted \cup {SubmitId}
    /\ clock' = clock + 1
    /\ \/ /\ store' = PutItem(store, SubmitId, PendingItem(clock))
          /\ post' = [pc |-> "invoke", job_id |-> SubmitId]
          /\ out' = NoOutput
       \/ /\ out' = SubmitError("ClientError put_item")
          /\ UNCHANGED <<store, post>>
    /\ UNCHANGED <<queue, runs, accepted, finalized, producer, fan>>

\* POST, after the initial write: lambda_client.invoke(InvocationType='Event'),
\* which raises (500) or queues the payload, and then the 202 response
SubmitInvoke ==
    /\ post.pc = "invoke"
    /\ post' = NoPost
    /\ \/ /\ queue' = PutItem(queue, post.job_id, 0)
          /\ accepted' = accepted \cup {post.job_id}
          /\ out' = SubmitAccepted(post.job_id)
       \/ /\ out' = SubmitError("ClientError invoke")
          /\ UNCHANGED <<queue, accepted>>
    /\ UNCHANGED <<store, clock, runs, submitted, finalized, producer, fan>>

\* ------------------------------------------------------------- Worker
\* what a report task ends with: run_<kind> catches every exception of its
\* generator, so fut.result() returns a ReportResult with status "success" or
\* "error"
TaskOutcomes == {"success", "error"}

\* what upload_and_presign does with a result that names a PDF: uploads it,
\* returns {} because the file does not exist, or raises in upload_fileobj
UploadOutcomes == {"uploaded", "no_file", "raises"}

\* the company the assessment of the event names, when its business-owner
\* answer is 'Acme Corp, ...': every normalizer derives the same name from it
Company == <<"Acme Corp">>

\* the placeholder of extract_company_name and of (company or 'customer')
Customer == <<"customer">>

\* c.lower() if it is alphanumeric or one of '-_', else '_'
SafeChar(c) ==
    IF c = "A" THEN "a"
    ELSE IF c = "B" THEN "b"
    ELSE IF c \in {" ", ","} THEN "_"
    ELSE IF c = "Acme Corp" THEN "acme_corp"
    ELSE IF c = "Valued Customer" THEN "valued_customer"
    ELSE c

\* ''.join(c if c.isalnum() or c in '-_' else '_' for c in (company or 'customer').lower())
SafeCompany(company) ==
    IF company = <<>> THEN Customer
    ELSE [i \in 1..Len(company) |-> SafeChar(company[i])]

\* the dict a generator returns on success: the executive and the compliance
\* generator name the company directly, the technical one under meta
GeneratorResult(kind) ==
    [present |-> TRUE, pdf_path |-> TRUE,
     company_name |-> IF kind = "technical" THEN <<>> ELSE Company,
     meta_company_name |-> IF kind = "technical" THEN Company ELSE <<>>]

\* _normalize_result, and the except branch around fut.result(): {} unless the
\* task returned status "success"
NormalizeResult(kind, outcome) ==
    IF outcome = "success" THEN GeneratorResult(kind) ELSE EmptyResult

\* extract_company_name(res)
ExtractCompanyName(res) ==
    IF ~res.present THEN Customer
    ELSE IF res.company_name # <<>> THEN res.company_name
    ELSE IF res.meta_company_name # <<>> THEN res.meta_company_name
    ELSE Customer

\* key = f"{S3_PREFIX}{safe_company_name}/{job_id}/{report_type}_report_{timestamp}.pdf"
ReportKey(company, j, kind, now) ==
    [prefix |-> S3_PREFIX, company |-> SafeCompany(company), job_id |-> j,
     type |-> kind, timestamp |-> now]

\* {"type": rtype, **upload_info}: what upload_and_presign returns for an uploaded file
UploadInfo(res, j, kind, now) ==
    LET key == ReportKey(ExtractCompanyName(res), j, kind, now)
    IN  [type |-> kind, bucket |-> BUCKET_NAME, key |-> key,
         presigned_url |-> PresignedUrl(BUCKET_NAME, key, now, PRESIGN_EXPIRES_SECS),
         expires_in_seconds |-> PRESIGN_EXPIRES_SECS]

\* whether the upload loop appends the kind to s3_reports
Uploaded(res, upload) ==
    res.present /\ res.pdf_path /\ upload = "uploaded"

\* the entry the upload loop appends to errors for a kind it did not upload
UploadError(res, kind, upload) ==
    [type |-> kind,
     error |-> IF res.present /\ res.pdf_path /\ upload = "raises"
               THEN "upload exception" ELSE "missing_or_invalid_pdf"]

\* an upload loop that gives up at the first kind it cannot upload
RECURSIVE UploadLoop_StopAtFailure(_, _, _, _, _)
UploadLoop_StopAtFailure(i, combined, uploads, j, now) ==
    IF i > Len(KindSeq) THEN [s3_reports |-> <<>>, errors |-> <<>>]
    ELSE LET kind == KindSeq[i]
             res  == combined[kind]
             rest == UploadLoop_StopAtFailure(i + 1, combined, uploads, j, now)
         IN  IF Uploaded(res, uploads[kind])
             THEN [rest EXCEPT !.s3_reports = <<UploadInfo(res, j, kind, now)>> \o @]
             ELSE [s3_reports |-> <<>>,
                   errors |-> <<UploadError(res, kind, uploads[kind])>>]

\* an upload loop that notes an error entry for every kind, uploaded or not
RECURSIVE UploadLoop_ErrorForAll(_, _, _, _, _)
UploadLoop_ErrorForAll(i, combined, uploads, j, now) ==
    IF i > Len(KindSeq) THEN [s3_reports |-> <<>>, errors |-> <<>>]
    ELSE LET kind == KindSeq[i]
             res  == combined[kind]
             rest == UploadLoop_ErrorForAll(i + 1, combined, uploads, j, now)
             noted == [rest EXCEPT !.errors = <<UploadError(res, kind, uploads[kind])>> \o @]
         IN  IF Uploaded(res, uploads[kind])
             THEN [noted EXCEPT !.s3_reports = <<UploadInfo(res, j, kind, now)>> \o @]
             ELSE noted

\* the upload loop over ["executive", "technical", "compliance"], from the i-th
\* kind on: the s3_reports and errors lists it builds
RECURSIVE UploadLoop(_, _, _, _, _)
UploadLoop(i, combined, uploads, j, now) ==
    IF i > Len(KindSeq) THEN [s3_reports |-> <<>>, errors |-> <<>>]
    ELSE LET kind == KindSeq[i]
             res  == combined[kind]
             rest == UploadLoop(i + 1, combined, uploads, j, now)
         IN  IF Uploaded(res, uploads[kind])
             THEN [rest EXCEPT !.s3_reports = <<UploadInfo(res, j, kind, now)>> \o @]
             ELSE [rest EXCEPT !.errors = <<UploadError(res, kind, uploads[kind])>> \o @]

\* a status rule that knows only the executive report
StatusValue_ExecutiveOrFailed(s3r) ==
    IF LegacyS3(s3r) # <<>> THEN "COMPLETED" ELSE "FAILED"

\* status_value = 'COMPLETED' if legacy_s3 else ('PARTIAL' if s3_reports else 'FAILED')
StatusValue(s3r) ==
    IF LegacyS3(s3r) # <<>> THEN "COMPLETED"
    ELSE IF s3r # <<>> THEN "PARTIAL"
    ELSE "FAILED"

\* a Worker that returns the executive PDF inline whenever it has one
WorkerResponse_AlwaysInline(j, combined, uploads, s3r, errors) ==
    [op |-> "worker", job_id |-> j,
     statusCode |-> IF s3r = <<>> THEN 500 ELSE 200,
     metadata |-> combined, s3_reports |-> s3r, s3 |-> LegacyS3(s3r), errors |-> errors,
     pdf_base64 |-> /\ combined["executive"].pdf_path
                    /\ uploads["executive"] # "no_file"]

\* the Worker's return value: the failure payload when nothing was uploaded, with
\* pdf_base64 when the executive PDF exists locally; else the success payload
WorkerResponse(j, combined, uploads, s3r, errors) ==
    [op |-> "worker", job_id |-> j,
     statusCode |-> IF s3r = <<>> THEN 500 ELSE 200,
     metadata |-> combined, s3_reports |-> s3r, s3 |-> LegacyS3(s3r), errors |-> errors,
     pdf_base64 |-> /\ s3r = <<>>
                    /\ combined["executive"].pdf_path
                    /\ uploads["executive"] # "no_file"]

\* the upload outcomes to consider for given task outcomes: upload_and_presign
\* is reached only for a kind whose task returned a result; a raising upload
\* differs from a missing file only in the errors and pdf_base64 of the
\* response, which only a synchronous caller receives
UploadsFor(tasks, sync) ==
    {u \in [KindSet -> UploadOutcomes] :
        \A k \in KindSet : /\ tasks[k] # "success" => u[k] = "no_file"
                           /\ ~sync => u[k] # "raises"}

NoRun == [pc |-> "idle", job_id |-> "-", sync |-> FALSE, stamp |-> 0]

\* Worker runs take the run ids in order
NextRun(r) == runs[r].pc = "idle" /\ \A q \in RunIds : q < r => runs[q].pc # "idle"

\* runs in the same position (same job, same kind of invocation, same progress)
\* are interchangeable: the one with the least run id takes the step
FirstInPosition(r) == \A q \in RunIds : q < r => runs[q] # runs[r]

\* the record the Worker writes on entry
ProcessingItem(now) == StatusItem("PROCESSING", now, now)

\* handler entry for job id j: put_item PROCESSING, whose failure is only logged
WorkerEntry(r, j, sync) ==
    /\ NextRun(r)
    /\ runs' = [runs EXCEPT ![r] = [pc |-> "processing", job_id |-> j, sync |-> sync, stamp |-> 0]]
    /\ clock' = clock + 1
    /\ \/ store' = PutItem(store, j, ProcessingItem(clock))
       \/ store' = store
    /\ out' = NoOutput

\* a delivery of the asynchronous invocation of job j: the queue delivers at
\* least once, and may deliver again; it drops what the handler returns
WorkerBegin(r, j) ==
    /\ j \in DOMAIN queue
    /\ WorkerEntry(r, j, FALSE)
    /\ queue' = [queue EXCEPT ![j] = @ + 1]
    /\ UNCHANGED <<post, submitted, accepted, finalized, producer, fan>>

\* a direct, synchronous invocation by a caller that waits for the response
\* before it invokes again: the job_id is the event's, or str(uuid.uuid4()) when
\* the event has none; no POST generated it
WorkerDirect(r) ==
    /\ \A q \in RunIds : runs[q].pc \notin {"processing", "stamped"}
    /\ WorkerEntry(r, OtherId, TRUE)
    /\ UNCHANGED <<post, queue, submitted, accepted, finalized, producer, fan>>

\* the run has its results and reads the time for its uploads and for the
\* ':updated_at' value of the terminal update; the update reaches the table
\* later, and writes of other runs of the job may reach it in between
WorkerStamp(r) ==
    /\ runs[r].pc = "processing"
    /\ FirstInPosition(r)
    /\ runs' = [runs EXCEPT ![r].pc = "stamped", ![r].stamp = clock]
    /\ clock' = clock + 1
    /\ out' = NoOutput
    /\ UNCHANGED <<store, post, queue, submitted, accepted, finalized, producer, fan>>

\* the rest of a run: the three tasks have ended, the results are collected, the
\* upload loop runs, the terminal update_item is attempted (its failure is only
\* logged) and the handler returns
WorkerComplete(r) ==
    /\ runs[r].pc = "stamped"
    /\ \/ \E tasks \in [KindSet -> TaskOutcomes] :
          \E uploads \in UploadsFor(tasks, runs[r].sync) :
             LET j        == runs[r].job_id
                 combined == [k \in KindSet |-> NormalizeResult(k, tasks[k])]
                 loop     == UploadLoop(1, combined, uploads, j, runs[r].stamp)
                 status   == StatusValue(loop.s3_reports)
             IN  /\ store' = UpdateItem(store, j, status, runs[r].stamp, combined, loop.s3_reports)
                 /\ finalized' = finalized \cup {j}
                 /\ out' = IF runs[r].sync
                           THEN WorkerResponse(j, combined, uploads, loop.s3_reports, loop.errors)
                           ELSE NoOutput
       \/ /\ UNCHANGED <<store, finalized>>
          /\ IF runs[r].sync
             THEN \E tasks \in [KindSet -> TaskOutcomes] :
                  \E uploads \in UploadsFor(tasks, TRUE) :
                     LET j        == runs[r].job_id
                         combined == [k \in KindSet |-> NormalizeResult(k, tasks[k])]
                         loop     == UploadLoop(1, combined, uploads, j, runs[r].stamp)
                     IN  out' = WorkerResponse(j, combined, uploads, loop.s3_reports, loop.errors)
             ELSE out' = NoOutput
    /\ runs' = [runs EXCEPT ![r].pc = "done", ![r].stamp = 0]
    /\ UNCHANGED <<clock, post, queue, submitted, accepted, producer, fan>>

\* the run ends without a terminal write: writing the payload file or importing
\* the runner raises, or the host is torn down
WorkerAbort(r) ==
    /\ runs[r].pc = "processing"
    /\ FirstInPosition(r)
    /\ runs' = [runs EXCEPT ![r].pc = "done"]
    /\ out' = NoOutput
    /\ UNCHANGED <<store, clock, post, queue, submitted, accepted, finalized, producer, fan>>

\* ---------------------------------------------------- report producers
\* The modules the runner loads the generators from: the executive one from
\* report_labs_executive, or from src.executive_report when that import fails;
\* the technical one from src.technical_report; the compliance one from
\* compliance_report.
ExecutiveModules == {"report_labs_executive", "src.executive_report"}

ProducerModule(kind, executive_module) ==
    IF kind = "executive" THEN executive_module
    ELSE IF kind = "technical" THEN "src.technical_report"
    ELSE "compliance_report"

\* A text answer is a sequence of characters.
Chars == {"A", " ", ","}
Strings == UNION {[1..n -> Chars] : n \in 0..MaxLen}

\* responses.get('company-name', ...): the key is missing, or holds a text
CompanyFields ==
    {[present |-> FALSE, value |-> <<>>],
     [present |-> TRUE, value |-> <<>>],
     [present |-> TRUE, value |-> <<"B">>]}

\* the text 'Valued Customer', which no answer over Chars equals
ValuedCustomer == <<"Valued Customer">>

\* ',' in business_owner
HasComma(str) == \E i \in 1..Len(str) : str[i] = ","

\* business_owner.split(',')[0]
BeforeComma(str) ==
    LET first == CHOOSE i \in 1..Len(str) :
                     str[i] = "," /\ \A k \in 1..(i - 1) : str[k] # ","
    IN  SubSeq(str, 1, first - 1)

\* str.strip()
RECURSIVE Strip(_)
Strip(str) ==
    IF str = <<>> THEN str
    ELSE IF Head(str) = " " THEN Strip(Tail(str))
    ELSE IF str[Len(str)] = " " THEN Strip(SubSeq(str, 1, Len(str) - 1))
    ELSE str

\* company_name of process_assessment_data in the given module
CompanyName(module, responses) ==
    IF HasComma(responses.owner)
    THEN Strip(BeforeComma(responses.owner))
    ELSE IF module = "report_labs_executive"
    THEN ValuedCustomer
    ELSE LET got == IF responses.company.present
                    THEN responses.company.value ELSE ValuedCustomer
         IN  IF module = "compliance_report" THEN got
             ELSE IF got = <<>> THEN ValuedCustomer ELSE got

\* The business-problems answer is a sequence of words.
Vocabulary == {"Patient", "banking", "advisory", "vehicle", "supermarket", "cloud"}
Texts == UNION {[1..n -> Vocabulary] : n \in 0..MaxWords}

\* word.lower()
Lower(word) == IF word = "Patient" THEN "patient" ELSE word

\* keyword in word, for lower-case words of the vocabulary
Contains(word, keyword) ==
    \/ word = keyword
    \/ word = "supermarket" /\ keyword = "market"

\* any(w in problem for w in keywords), problem being the lower-cased answer
AnyIn(keywords, problem) ==
    \E i \in 1..Len(problem) : \E w \in keywords : Contains(Lower(problem[i]), w)

HealthcareWords == {"clinical", "physician", "patient", "healthcare", "medical"}

FinancialWords(module) ==
    {"financial", "banking", "fintech", "payment", "trading", "market"}
        \cup (IF module = "compliance_report" THEN {"advisory"} ELSE {})

ManufacturingWords(module) ==
    IF module = "compliance_report" THEN {}
    ELSE {"vehicle", "manufacturing", "automotive"}

\* _infer_industry of the given module
InferIndustry(module, responses) ==
    IF AnyIn(HealthcareWords, responses.problems) THEN "Healthcare Technology"
    ELSE IF AnyIn(FinancialWords(module), responses.problems) THEN "Financial Technology"
    ELSE IF AnyIn(ManufacturingWords(module), responses.problems) THEN "Manufacturing & Automotive"
    ELSE "Technology"

\* industry.lower(), as the words it consists of
IndustryLower(industry) ==
    IF industry = "Healthcare Technology" THEN {"healthcare", "technology"}
    ELSE IF industry = "Financial Technology" THEN {"financial", "technology"}
    ELSE IF industry = "Manufacturing & Automotive" THEN {"manufacturing", "&", "automotive"}
    ELSE {"technology"}

\* a gate that lets every industry through
ShouldGenerateComplianceReport_Always(industry) == TRUE

\* should_generate_compliance_report(industry)
ShouldGenerateComplianceReport(industry) ==
    \E ind \in {"healthcare", "financial", "finance", "banking"} :
        ind \in IndustryLower(industry)

\* the section keys the prompt of a kind asks for, which are the keys of its
\* fallback content and the ones its PDF is built from
SectionKeys(kind) ==
    IF kind = "technical"
    THEN {"current_state_assessment", "target_architecture_design", "data_strategy",
          "model_evaluation_recommendations", "implementation_plan",
          "integration_and_operations"}
    ELSE IF kind = "compliance"
    THEN {"compliance_gap_analysis", "data_governance_framework",
          "security_architecture", "regulatory_roadmap"}
    ELSE {"executive_summary", "business_case_analysis",
          "technical_implementation_roadmap", "financial_investment_analysis",
          "risk_mitigation_strategy", "strategic_recommendations"}

\* what the generation service does with a prompt: it cannot be reached (or the
\* client is not there), or it answers text that json.loads rejects, JSON that
\* is no object, an object that lacks section keys, or an object with all of them
ServiceOutcomes == {"unavailable", "unparseable", "not_a_record", "missing_keys", "complete"}

NoContent == [source |-> "none", is_record |-> FALSE, keys |-> {}]

\* _generate_fallback_content(processed_data)
FallbackContent(kind) ==
    [source |-> "fallback", is_record |-> TRUE, keys |-> SectionKeys(kind)]

\* generate_report_content / generate_compliance_content: the fallback when
\* the call or json.loads raises, else whatever json.loads returned
GenerateContent(kind, service) ==
    IF service \in {"unavailable", "unparseable"} THEN FallbackContent(kind)
    ELSE IF service = "not_a_record"
    THEN [source |-> "service", is_record |-> FALSE, keys |-> {}]
    ELSE IF service = "missing_keys"
    THEN [source |-> "service", is_record |-> TRUE,
          keys |-> SectionKeys(kind) \ {CHOOSE k \in SectionKeys(kind) : TRUE}]
    ELSE [source |-> "service", is_record |-> TRUE, keys |-> SectionKeys(kind)]

NoProduct ==
    [kind |-> "-", force |-> TRUE, service |-> "-", company_name |-> <<>>,
     industry |-> "-", outcome |-> "-", status |-> "-", pdf_path |-> FALSE,
     content |-> NoContent, sections |-> {}]

\* run_<kind>(json_path) around generate_report(json_path[, force]): normalize
\* the assessment, for the compliance kind return None when the report is not
\* applicable and not forced, generate the content and build the PDF, whose
\* sections are content.get(key, '') (which raises when content is no dict);
\* the runner reports status "success" with what generate_report returned, or
\* status "error" when it raised
GenerateReport(kind, module, responses, force, service) ==
    LET base == [NoProduct EXCEPT !.kind = kind, !.force = force, !.service = service,
                                  !.company_name = CompanyName(module, responses),
                                  !.industry = InferIndustry(module, responses)]
        content == GenerateContent(kind, service)
    IN  IF kind = "compliance" /\ ~force /\ ~ShouldGenerateComplianceReport(base.industry)
        THEN [base EXCEPT !.outcome = "not_applicable", !.status = "success"]
        ELSE IF ~content.is_record
        THEN [base EXCEPT !.outcome = "raised", !.status = "error", !.content = content]
        ELSE [base EXCEPT !.outcome = "produced", !.status = "success",
                          !.pdf_path = TRUE, !.content = content,
                          !.sections = content.keys]

EmptyResponses ==
    [owner |-> <<>>, company |-> [present |-> FALSE, value |-> <<>>], problems |-> <<>>]

NoProducer ==
    [responses |-> EmptyResponses, executive_module |-> "report_labs_executive",
     product |-> NoProduct]

\* one task of the fan-out: the producer of a kind runs on the assessment
Produce(kind) ==
    /\ \E force \in (IF kind = "compliance" THEN BOOLEAN ELSE {TRUE}) :
       \E service \in ServiceOutcomes :
          producer' = [producer EXCEPT !.product =
              GenerateReport(kind, ProducerModule(kind, producer.executive_module),
                             producer.responses, force, service)]
    /\ UNCHANGED <<store, clock, post, queue, runs, out, submitted, accepted, finalized, fan>>

\* ------------------------------------------- one Worker run, in detail
\* the dict the generator of a kind returns for the assessment: the modules
\* under src put the normalized assessment under meta, the others name the
\* company directly
ProducerResult(kind, module, responses) ==
    LET name   == CompanyName(module, responses)
        nested == module \in {"src.technical_report", "src.executive_report"}
    IN  [present |-> TRUE, pdf_path |-> TRUE,
         company_name |-> IF nested THEN <<>> ELSE name,
         meta_company_name |-> IF nested THEN name ELSE <<>>]

\* _normalize_result(fut.result()) for the task of a kind that ended
FutureResult(kind, outcome) ==
    IF outcome = "success"
    THEN ProducerResult(kind, ProducerModule(kind, producer.executive_module),
                        producer.responses)
    ELSE EmptyResult

\* generate_all_reports: the three generators one after the other, each in its
\* own try/except; a kind that raised stays None
GenerateAllReports(tasks) ==
    [k \in KindSet |->
        IF tasks[k] = "success"
        THEN ProducerResult(k, ProducerModule(k, "src.executive_report"), producer.responses)
        ELSE EmptyResult]

\* run_parallel.main: results[name] = res for the futures in the order in
\* which they complete, up to the i-th
RECURSIVE Aggregate(_, _, _)
Aggregate(i, order, tasks) ==
    IF i = 0 THEN [k \in {} |-> "error"]
    ELSE LET before == Aggregate(i - 1, order, tasks)
             name   == order[i]
         IN  [k \in DOMAIN before \cup {name} |->
                 IF k = name THEN tasks[name] ELSE before[k]]

\* the company of the folder: the first result, in the order of the result
\* map, whose extracted name is not 'customer'
RECURSIVE FolderCompany(_, _)
FolderCompany(i, combined) ==
    IF i > Len(KindSeq) THEN <<>>
    ELSE IF combined[KindSeq[i]].present
            /\ ExtractCompanyName(combined[KindSeq[i]]) # Customer
    THEN ExtractCompanyName(combined[KindSeq[i]])
    ELSE FolderCompany(i + 1, combined)

\* s3_folder_path = f"{S3_PREFIX}{safe_company_name}/{job_id}/" of the Worker's
\* response
S3FolderPath(combined, j) ==
    [prefix |-> S3_PREFIX, company |-> SafeCompany(FolderCompany(1, combined)), job_id |-> j]

\* s3_folder_path = f"reports/{safe_company}/{job_id}/" of a poll response, from
\* the stored metadata
PollFolderPath(metadata, j) ==
    [prefix |-> "reports/", company |-> SafeCompany(FolderCompany(1, metadata)), job_id |-> j]

\* the folder a storage key lies in
KeyFolder(key) == [prefix |-> key.prefix, company |-> key.company, job_id |-> key.job_id]

NoUploads == [k \in KindSet |-> "no_file"]

NoFan ==
    [pc |-> "idle", entry_written |-> FALSE,
     tasks |-> [k \in KindSet |-> "idle"], order |-> <<>>,
     collected |-> 0, combined |-> EmptyResults,
     uploads |-> NoUploads, s3_reports |-> <<>>, errors |-> <<>>,
     status |-> "-", written |-> FALSE, response |-> NoOutput,
     s3_folder |-> S3FolderPath(EmptyResults, SubmitId)]

\* handler entry up to the fan-out: the PROCESSING put_item, whose failure is
\* only logged, and the three ex.submit calls
FanEnter ==
    /\ fan.pc = "idle"
    /\ \E ok \in BOOLEAN :
          fan' = [fan EXCEPT !.pc = "running", !.entry_written = ok,
                             !.tasks = [k \in KindSet |-> "running"]]
    /\ UNCHANGED <<store, clock, post, queue, runs, out, submitted, accepted, finalized, producer>>

\* the task of a kind ends: run_<kind> returns a ReportResult with status
\* success or error
TaskEnd(kind) ==
    /\ fan.pc = "running"
    /\ fan.tasks[kind] = "running"
    /\ \E outcome \in TaskOutcomes :
          fan' = [fan EXCEPT !.tasks[kind] = outcome, !.order = Append(@, kind)]
    /\ UNCHANGED <<store, clock, post, queue, runs, out, submitted, accepted, finalized, producer>>

\* a handler that files the results in the order in which the tasks ended
Collect_ByArrival ==
    /\ fan.pc = "running"
    /\ fan.collected < Len(fan.order)
    /\ LET kind == KindSeq[fan.collected + 1]
           from == fan.order[fan.collected + 1]
       IN  fan' = [fan EXCEPT !.collected = @ + 1,
                              !.combined[kind] = FutureResult(from, fan.tasks[from])]
    /\ UNCHANGED <<store, clock, post, queue, runs, out, submitted, accepted, finalized, producer>>

\* for name, fut in futures.items(): combined_results[name] =
\* _normalize_result(fut.result()): the handler waits for the futures in the
\* order in which it submitted them
Collect ==
    /\ fan.pc = "running"
    /\ fan.collected < Len(KindSeq)
    /\ LET kind == KindSeq[fan.collected + 1]
       IN  /\ fan.tasks[kind] # "running"
           /\ fan' = [fan EXCEPT !.collected = @ + 1,
                                 !.combined[kind] = FutureResult(kind, fan.tasks[kind])]
    /\ UNCHANGED <<store, clock, post, queue, runs, out, submitted, accepted, finalized, producer>>

\* a handler that answers an error when a table write failed
FanFinish_Propagate ==
    /\ fan.pc = "running"
    /\ fan.collected = Len(KindSeq)
    /\ \E uploads \in UploadsFor(fan.tasks, TRUE), ok \in BOOLEAN :
          LET loop == UploadLoop(1, fan.combined, uploads, SubmitId, clock)
              response == WorkerResponse(SubmitId, fan.combined, uploads,
                                         loop.s3_reports, loop.errors)
          IN  fan' = [fan EXCEPT
                  !.pc = "done", !.uploads = uploads,
                  !.s3_reports = loop.s3_reports, !.errors = loop.errors,
                  !.status = StatusValue(loop.s3_reports), !.written = ok,
                  !.response = IF ok /\ fan.entry_written THEN response
                               ELSE [response EXCEPT !.statusCode = 500],
                  !.s3_folder = S3FolderPath(fan.combined, SubmitId)]
    /\ UNCHANGED <<store, clock, post, queue, runs, out, submitted, accepted, finalized, producer>>

\* after the join: the upload loop, the terminal update_item, whose failure is
\* only logged, and the return
FanFinish ==
    /\ fan.pc = "running"
    /\ fan.collected = Len(KindSeq)
    /\ \E uploads \in UploadsFor(fan.tasks, TRUE), ok \in BOOLEAN :
          LET loop == UploadLoop(1, fan.combined, uploads, SubmitId, clock)
          IN  fan' = [fan EXCEPT
                  !.pc = "done", !.uploads = uploads,
                  !.s3_reports = loop.s3_reports, !.errors = loop.errors,
                  !.status = StatusValue(loop.s3_reports), !.written = ok,
                  !.response = WorkerResponse(SubmitId, fan.combined, uploads,
                                              loop.s3_reports, loop.errors),
                  !.s3_folder = S3FolderPath(fan.combined, SubmitId)]
    /\ UNCHANGED <<store, clock, post, queue, runs, out, submitted, accepted, finalized, producer>>

\* ------------------------------------------------------- specifications
\* the orchestration before any request
InitOrchestration ==
    /\ store = <<>>
    /\ clock = 1
    /\ post = NoPost
    /\ queue = <<>>
    /\ runs = [r \in RunIds |-> NoRun]
    /\ out = NoOutput
    /\ submitted = {}
    /\ accepted = {}
    /\ finalized = {}

Init ==
    /\ InitOrchestration
    /\ producer = NoProducer
    /\ fan = NoFan

\* the deployed system: clients POST and GET, the queue invokes the Worker
Next ==
    \/ SubmitRejected
    \/ SubmitPut
    \/ SubmitInvoke
    \/ PollMissingParam
    \/ \E j \in Ids : Poll(j)
    \/ \E r \in RunIds, j \in Ids : WorkerBegin(r, j)
    \/ \E r \in RunIds : WorkerStamp(r)
    \/ \E r \in RunIds : WorkerComplete(r)
    \/ \E r \in RunIds : WorkerAbort(r)

Spec == Init /\ [][Next]_vars

\* the Worker invoked directly and synchronously, and clients that GET
NextDirect ==
    \/ PollMissingParam
    \/ \E j \in Ids : Poll(j)
    \/ \E r \in RunIds : WorkerDirect(r)
    \/ \E r \in RunIds : WorkerStamp(r)
    \/ \E r \in RunIds : WorkerComplete(r)
    \/ \E r \in RunIds : WorkerAbort(r)

SpecDirect == Init /\ [][NextDirect]_vars

\* the deployed system, with the table unreadable or URL signing failing in a GET
NextDegraded ==
    \/ Next
    \/ \E j \in Ids : PollDegraded(j)

SpecDegraded == Init /\ [][NextDegraded]_vars

\* the producers on the assessments whose business-owner and company-name
\* answers vary
InitCompany ==
    /\ InitOrchestration
    /\ \E owner \in Strings, company \in CompanyFields, module \in ExecutiveModules :
          producer = [NoProducer EXCEPT
                         !.responses = [EmptyResponses EXCEPT !.owner = owner,
                                                               !.company = company],
                         !.executive_module = module]
    /\ fan = NoFan

\* the producers on the assessments whose business-problems answer varies
InitIndustry ==
    /\ InitOrchestration
    /\ \E problems \in Texts, module \in ExecutiveModules :
          producer = [NoProducer EXCEPT
                         !.responses = [EmptyResponses EXCEPT !.problems = problems],
                         !.executive_module = module]
    /\ fan = NoFan

NextProducers == \E kind \in KindSet : Produce(kind)

SpecCompany == InitCompany /\ [][NextProducers]_vars

SpecIndustry == InitIndustry /\ [][NextProducers]_vars

\* one Worker run on the assessments with a business-owner answer of at most
\* one character
InitFanOut ==
    /\ InitOrchestration
    /\ \E owner \in {str \in Strings : Len(str) <= 1}, company \in CompanyFields,
          module \in ExecutiveModules :
          producer = [NoProducer EXCEPT
                         !.responses = [EmptyResponses EXCEPT !.owner = owner,
                                                               !.company = company],
                         !.executive_module = module]
    /\ fan = NoFan

NextFanOut ==
    \/ FanEnter
    \/ \E kind \in KindSet : TaskEnd(kind)
    \/ Collect
    \/ FanFinish

SpecFanOut == InitFanOut /\ [][NextFanOut]_vars

\* the run when every task terminates and the Worker is not torn down
SpecFanOutFair ==
    /\ SpecFanOut
    /\ WF_vars(FanEnter)
    /\ \A kind \in KindSet : WF_vars(TaskEnd(kind))
    /\ WF_vars(Collect)
    /\ WF_vars(FanFinish)

\* ------------------------------------------------------------ properties
\* the kinds a list of reports holds, and their storage locators in order
ReportKinds(reports) == {reports[i].type : i \in 1..Len(reports)}
Locators(reports) ==
    [i \in 1..Len(reports) |-> <<reports[i].type, reports[i].bucket, reports[i].key>>]

\* out is the response of a GET that named job id j
PolledJob(j) == out.op = "poll" /\ out.job_id = j

C2_NeverSubmittedNotFound ==
    \A j \in Ids :
        (PolledJob(j) /\ j \notin submitted) => out.statusCode = 404

C4_StatusTransitions ==
    [][\A j \in DOMAIN store' :
        IF j \notin DOMAIN store
        THEN store'[j].status = "PENDING"
        ELSE \/ store'[j].status = store[j].status
             \/ store[j].status = "PENDING" /\ store'[j].status = "PROCESSING"
             \/ store[j].status = "PROCESSING" /\ store'[j].status \in TerminalStatuses]_vars

\* C5: once the stored status of a job is COMPLETED, PARTIAL or FAILED, the
\* record keeps that status, its artifact references and its metadata, also
\* when the job is delivered to the Worker again.
C5_TerminalIsFinal ==
    [][\A j \in DOMAIN store :
        store[j].status \in TerminalStatuses
            => /\ store'[j].status = store[j].status
               /\ store'[j].s3_reports = store[j].s3_reports
               /\ store'[j].metadata = store[j].metadata]_vars

\* C6: a terminal record is COMPLETED if and only if all three kinds were
\* uploaded (the status and the artifact list are written by the same update).
C6_CompletedIffAllThree ==
    \A j \in DOMAIN store :
        store[j].status \in TerminalStatuses
            => (store[j].status = "COMPLETED"
                    <=> ReportKinds(store[j].s3_reports) = KindSet)

\* C7: a terminal record is PARTIAL if and only if at least one but not all
\* three kinds were uploaded.
C7_PartialIffSome ==
    \A j \in DOMAIN store :
        store[j].status \in TerminalStatuses
            => (store[j].status = "PARTIAL"
                    <=> /\ ReportKinds(store[j].s3_reports) # {}
                        /\ ReportKinds(store[j].s3_reports) # KindSet)

\* C8: the Worker's terminal write stores FAILED if and only if the run
\* uploaded nothing, and the Worker returns statusCode 500 in exactly that case.
C8_FailedIffNone ==
    [][out'.op = "worker" =>
        /\ out'.statusCode = 500 <=> out'.s3_reports = <<>>
        /\ out'.statusCode \in {200, 500}
        /\ store' # store =>
             /\ store'[out'.job_id].status \in TerminalStatuses
             /\ store'[out'.job_id].status = "FAILED" <=> out'.s3_reports = <<>>
             /\ store'[out'.job_id].s3_reports = out'.s3_reports]_vars

C8_Witness ==
    /\ out.op = "worker" /\ out.statusCode = 500
    /\ out.job_id \in finalized
    /\ store[out.job_id].status = "FAILED"
    /\ store[out.job_id].updated_at = clock - 1

C10_FailedHasErrorMessage ==
    /\ \A j \in DOMAIN store :
          store[j].status = "FAILED"
              <=> ("error_message" \in store[j].attrs /\ store[j].error_message # "")
    /\ (out.op = "poll" /\ out.status = "FAILED")
          => (out.error_message = store[out.job_id].error_message /\ out.s3_reports = <<>>)

\* C11: no stored record holds a presigned URL: every stored artifact reference
\* holds the report type, the bucket and the key, and nothing else.
C11_NoStoredUrl ==
    \A j \in DOMAIN store :
        \A i \in 1..Len(store[j].s3_reports) :
            DOMAIN store[j].s3_reports[i] = {"type", "bucket", "key"}

\* the URLs a list of reports carries
Urls(reports) == {reports[i].presigned_url : i \in 1..Len(reports)}

\* C12: every URL of a COMPLETED/PARTIAL poll response, the legacy s3 pointer
\* included, was signed in that poll for its own locator with the configured
\* expiry counted from the poll; it is not a URL of the stored record.
C12_FreshUrls ==
    (out.op = "poll" /\ out.status \in {"COMPLETED", "PARTIAL"}) =>
        /\ \A i \in 1..Len(out.s3_reports) :
              LET r == out.s3_reports[i]
              IN  /\ r.presigned_url = PresignedUrl(r.bucket, r.key, clock, PRESIGN_EXPIRES_SECS)
                  /\ r.expires_in_seconds = PRESIGN_EXPIRES_SECS
        /\ Urls(out.s3_reports) \cap Urls(store[out.job_id].s3_reports) = {}
        /\ \A i \in 1..Len(out.s3) :
              /\ out.s3[i].presigned_url \in Urls(out.s3_reports)
              /\ out.s3[i].presigned_url.issued_at = clock

C12_Witness ==
    /\ PolledJob(SubmitId) /\ out.status = "COMPLETED"
    /\ Len(out.s3_reports) = 3 /\ Len(out.s3) = 1
    /\ out.s3[1].presigned_url.issued_at = clock
    /\ \A u \in Urls(store[SubmitId].s3_reports) : u.issued_at < clock

\* C13: the Worker is dispatched (the invocation queued, a delivery begun) only
\* for a job id whose record is already stored, and the accepted response of a
\* submit names a job whose record was stored before, says PENDING, and is
\* returned in the step that queues the invocation, with no Worker step taken.
C13_RecordBeforeDispatch ==
    [][/\ \A j \in (DOMAIN queue') \ (DOMAIN queue) : j \in DOMAIN store
       /\ \A r \in RunIds :
             (runs[r].pc = "idle" /\ runs'[r].pc = "processing" /\ ~runs'[r].sync)
                 => runs'[r].job_id \in DOMAIN store
       /\ (out'.op = "submit" /\ out'.statusCode = 202) =>
             /\ out'.job_id \in DOMAIN store
             /\ out'.status = "PENDING"
             /\ out'.job_id \in (DOMAIN queue') \ (DOMAIN queue)
             /\ runs' = runs
             /\ \A r \in RunIds : runs[r].job_id # out'.job_id]_vars

C13_Witness ==
    /\ out = SubmitAccepted(SubmitId)
    /\ SubmitId \in DOMAIN store /\ store[SubmitId].status = "PENDING"
    /\ SubmitId \in DOMAIN queue /\ queue[SubmitId] = 0

\* C14: a POST whose body is not JSON is answered with a 4xx status and a
\* message, creates no record and dispatches no Worker.
C14_MalformedIsClientError ==
    [][(out'.op = "submit" /\ out'.error # <<>> /\ out'.error[2] = "JSONDecodeError") =>
          /\ out'.statusCode \in 400..499
          /\ UNCHANGED <<store, queue, runs>>]_vars

\* C15: a Worker response carries pdf_base64 exactly when the run uploaded
\* nothing (statusCode 500) and the executive PDF exists locally, which is when
\* the upload of the executive PDF raised; a 200 response carries none.
C15_InlineFallback ==
    [][out'.op = "worker" =>
        /\ out'.pdf_base64 <=>
              /\ out'.statusCode = 500 /\ out'.s3_reports = <<>>
              /\ \E i \in 1..Len(out'.errors) :
                    out'.errors[i] = [type |-> "executive", error |-> "upload exception"]
        /\ out'.s3_reports # <<>> => ~out'.pdf_base64]_vars

C15_Witness ==
    /\ out.op = "worker" /\ out.statusCode = 500 /\ out.pdf_base64
    /\ out.metadata["executive"].pdf_path
    /\ Len(out.errors) = 3
\* C16: updated_at of a record never decreases from one write to the next,
\* strictly advances when the status changes, and created_at <= updated_at in
\* every record.
C16_TimestampsMonotonic ==
    [][\A j \in DOMAIN store' :
          /\ store'[j].created_at <= store'[j].updated_at
          /\ j \in DOMAIN store =>
                /\ store'[j].updated_at >= store[j].updated_at
                /\ store'[j].status # store[j].status
                      => store'[j].updated_at > store[j].updated_at]_vars

\* what a producer's last run did, for the runs that happened
Produced == producer.product.kind \in KindSet

\* C17: the company_name every kind's normalizer derives is the trimmed text
\* before the first comma of business-owner when it has a comma, else the
\* company-name answer when present, else 'Valued Customer'.
C17_CompanyName ==
    Produced =>
        producer.product.company_name =
            IF HasComma(producer.responses.owner)
            THEN Strip(BeforeComma(producer.responses.owner))
            ELSE IF producer.responses.company.present
            THEN producer.responses.company.value
            ELSE ValuedCustomer

\* the lower-cased words of a text
LowerWords(text) == {Lower(text[i]) : i \in 1..Len(text)}

\* C18: every kind's normalizer infers the industry by testing the healthcare
\* words first, then the financial words, then the manufacturing/automotive
\* words, 'Technology' when none matches; and two kinds that run on the same
\* assessment infer the same industry.
C18_IndustryPriority ==
    [][producer'.product.kind \in KindSet =>
        /\ LET words == LowerWords(producer'.responses.problems)
               industry == producer'.product.industry
           IN  /\ "patient" \in words => industry = "Healthcare Technology"
               /\ ("patient" \notin words /\ words \cap {"banking", "supermarket"} # {})
                     => industry = "Financial Technology"
               /\ ("vehicle" \in words /\ words \subseteq {"vehicle", "cloud"})
                     => industry = "Manufacturing & Automotive"
               /\ words \subseteq {"cloud"} => industry = "Technology"
        /\ Produced => producer'.product.industry = producer.product.industry]_vars

\* C19: the compliance producer ends not applicable (status success, no PDF, no
\* content generated) exactly when it is not forced and the inferred industry
\* is neither the healthcare nor the financial one; otherwise it goes on to
\* generate the content.
C19_ComplianceGate ==
    producer.product.kind = "compliance" =>
        /\ producer.product.outcome = "not_applicable"
              <=> /\ ~producer.product.force
                  /\ producer.product.industry
                         \notin {"Healthcare Technology", "Financial Technology"}
        /\ producer.product.outcome = "not_applicable"
              => /\ producer.product.status = "success"
                 /\ ~producer.product.pdf_path
                 /\ producer.product.content = NoContent
        /\ producer.product.outcome # "not_applicable"
              => producer.product.content.source \in {"service", "fallback"}

C19_Witness ==
    /\ producer.product.kind = "compliance"
    /\ ~producer.product.force
    /\ producer.responses.problems = <<"vehicle", "cloud">>
    /\ producer.product.industry = "Technology"
    /\ producer.product.outcome = "not_applicable"
    /\ producer.product.status = "success"

\* C20: a producer whose generation service is unreachable, answers text that
\* does not parse, or answers something that is not a record with every section
\* key, uses the fallback content with every section key, raises nothing, and
\* renders every section.
C20_FallbackOnBadResponse ==
    (/\ Produced
     /\ producer.product.outcome # "not_applicable"
     /\ producer.product.service # "complete") =>
        /\ producer.product.content = FallbackContent(producer.product.kind)
        /\ producer.product.status = "success"
        /\ producer.product.sections = SectionKeys(producer.product.kind)

\* a producer of job j is running: a Worker run of j is between its entry and
\* its return
Running(j) == \E r \in RunIds : runs[r].job_id = j /\ runs[r].pc \in {"processing", "stamped"}

\* C23: while a producer of a job is running and no terminal write of the job
\* has happened, a poll of the job shows PROCESSING, never PENDING.
C23_ProcessingWhileRunning ==
    \A j \in Ids :
        (PolledJob(j) /\ Running(j) /\ j \notin finalized) => out.status = "PROCESSING"

\* C29: created_at of a record never changes once it is written.
C29_CreatedAtFrozen ==
    [][\A j \in DOMAIN store : store'[j].created_at = store[j].created_at]_vars

\* C30: when no submit is in progress, every PENDING record belongs to a job
\* whose dispatch was accepted and whose job_id was returned to the client; a
\* submit that answers an error leaves no record behind.
C30_NoOrphanPending ==
    /\ post.pc = "idle" =>
          \A j \in DOMAIN store : store[j].status = "PENDING" => j \in accepted
    /\ (out.op = "submit" /\ out.statusCode = 500) =>
          \A j \in DOMAIN store : j \in accepted

\* the Worker run of fan has returned
FanDone == fan.pc = "done"

\* how often a kind occurs in a list of report or error entries
Occurrences(entries, kind) ==
    Cardinality({i \in 1..Len(entries) : entries[i].type = kind})

\* C21: a failure in one kind's pipeline (task or upload) is a failed result
\* of that kind only: at the end of a run all three tasks have ended, every
\* kind whose task produced an artifact and whose upload went through is in
\* s3_reports whatever happened to the others, every other kind is in errors;
\* generate_all_reports likewise has a result for exactly the kinds that did
\* not raise
C21_FailureIsolated ==
    /\ FanDone =>
          /\ \A k \in KindSet : fan.tasks[k] \in TaskOutcomes
          /\ \A k \in KindSet :
                IF fan.tasks[k] = "success" /\ fan.uploads[k] = "uploaded"
                THEN /\ k \in ReportKinds(fan.s3_reports)
                     /\ k \in ReportKinds(fan.response.s3_reports)
                ELSE /\ k \notin ReportKinds(fan.s3_reports)
                     /\ k \in ReportKinds(fan.errors)
    /\ (\A k \in KindSet : fan.tasks[k] \in TaskOutcomes) =>
          \A k \in KindSet :
              GenerateAllReports(fan.tasks)[k].present <=> fan.tasks[k] = "success"

\* the executive task raised, the technical upload raised, and the compliance
\* report is uploaded and recorded all the same
C21_Witness ==
    /\ FanDone
    /\ fan.tasks["executive"] = "error"
    /\ fan.tasks["technical"] = "success" /\ fan.uploads["technical"] = "raises"
    /\ ReportKinds(fan.s3_reports) = {"compliance"}
    /\ ReportKinds(fan.errors) = {"executive", "technical"}

\* the kinds of a list of reports are in the order of KindSeq
InKindOrder(reports) ==
    \A a, b \in 1..Len(reports) :
        a < b => \E x, y \in 1..Len(KindSeq) :
                    x < y /\ KindSeq[x] = reports[a].type /\ KindSeq[y] = reports[b].type

\* C22: whatever the order in which the three tasks end, each collected result
\* is the one of its own kind, the map run_parallel builds from the completed
\* futures gives every ended task its own outcome, and at the end of the run the result map, the
\* artifact list and the status are the ones the per-kind outcomes determine
\* (the status by the rule of the handler, which looks at the executive report
\* first)
C22_OrderIndependent ==
    /\ \A i \in 1..fan.collected :
          fan.combined[KindSeq[i]] = FutureResult(KindSeq[i], fan.tasks[KindSeq[i]])
    /\ \A i \in (fan.collected + 1)..Len(KindSeq) : fan.combined[KindSeq[i]] = EmptyResult
    /\ Aggregate(Len(fan.order), fan.order, fan.tasks) =
          [k \in {fan.order[i] : i \in 1..Len(fan.order)} |-> fan.tasks[k]]
    /\ FanDone =>
          /\ fan.response.metadata = [k \in KindSet |-> FutureResult(k, fan.tasks[k])]
          /\ ReportKinds(fan.s3_reports) =
                {k \in KindSet : fan.tasks[k] = "success" /\ fan.uploads[k] = "uploaded"}
          /\ InKindOrder(fan.s3_reports)
          /\ fan.status =
                LET done == {k \in KindSet : fan.tasks[k] = "success" /\ fan.uploads[k] = "uploaded"}
                IN  IF "executive" \in done THEN "COMPLETED"
                    ELSE IF done = {} THEN "FAILED"
                    ELSE "PARTIAL"

\* the tasks ended in the reverse of the order in which they were submitted,
\* with different outcomes
C22_Witness ==
    /\ FanDone
    /\ fan.order = <<"compliance", "technical", "executive">>
    /\ fan.tasks["compliance"] = "error"
    /\ fan.tasks["executive"] = "success"
    /\ "executive" \in ReportKinds(fan.s3_reports)

\* C27: a failed table write in the Worker, at entry or at the end, changes
\* nothing else: the three tasks still run, the artifacts are uploaded, and the
\* response is the one the outcomes of the tasks and uploads determine
C27_WriteFailureNotPropagated ==
    FanDone =>
        /\ \A k \in KindSet : fan.tasks[k] \in TaskOutcomes
        /\ fan.response =
              LET combined == [k \in KindSet |-> FutureResult(k, fan.tasks[k])]
                  loop == UploadLoop(1, combined, fan.uploads, SubmitId, clock)
              IN  WorkerResponse(SubmitId, combined, fan.uploads, loop.s3_reports, loop.errors)
        /\ fan.response.statusCode = IF fan.s3_reports = <<>> THEN 500 ELSE 200

\* both writes failed and the run still answers 200 with three uploaded reports
C27_Witness ==
    /\ FanDone
    /\ ~fan.entry_written /\ ~fan.written
    /\ fan.response.statusCode = 200
    /\ ReportKinds(fan.response.s3_reports) = KindSet

\* C28: at the end of a run the result map has exactly the three kinds as
\* keys, and every kind occurs exactly once in s3_reports and errors together
C28_ExactlyOneList ==
    FanDone =>
        /\ DOMAIN fan.combined = KindSet
        /\ DOMAIN fan.response.metadata = KindSet
        /\ \A k \in KindSet :
              Occurrences(fan.s3_reports, k) + Occurrences(fan.errors, k) = 1
        /\ ReportKinds(fan.s3_reports) \cup ReportKinds(fan.errors) = KindSet

\* one kind uploaded, one without a file, one whose upload raised
C28_Witness ==
    /\ FanDone
    /\ fan.uploads = [k \in KindSet |->
                        IF k = "executive" THEN "uploaded"
                        ELSE IF k = "technical" THEN "no_file" ELSE "raises"]
    /\ Len(fan.s3_reports) = 1 /\ Len(fan.errors) = 2

\* C24: the terminal write happens only after all three tasks have ended, and
\* when every task ends and the Worker keeps running the job's record
\* eventually holds a terminal status
C24_EventuallyTerminal ==
    /\ [](fan.written => \A k \in KindSet : fan.tasks[k] \in TaskOutcomes)
    /\ <>(fan.written /\ fan.status \in TerminalStatuses)

\* C25: the keys of all reports a run uploaded lie in one folder, made of the
\* prefix, the sanitized company name and the job id; it is the folder of the
\* Worker's response and of the poll responses
C25_CommonFolder ==
    (FanDone /\ fan.response.statusCode = 200) =>
        /\ \A i \in 1..Len(fan.s3_reports) :
              /\ KeyFolder(fan.s3_reports[i].key) = fan.s3_folder
              /\ fan.s3_reports[i].key.company =
                    SafeCompany(ExtractCompanyName(fan.combined[fan.s3_reports[i].type]))
        /\ fan.s3_folder = PollFolderPath(fan.response.metadata, SubmitId)

\* C26: the kinds of one run that were produced and uploaded carry the same
\* normalized company name and industry
C26_NormalizedOnce ==
    FanDone =>
        \A k1, k2 \in ReportKinds(fan.s3_reports) :
            LET m1 == ProducerModule(k1, producer.executive_module)
                m2 == ProducerModule(k2, producer.executive_module)
            IN  /\ CompanyName(m1, producer.responses) = CompanyName(m2, producer.responses)
                /\ InferIndustry(m1, producer.responses) = InferIndustry(m2, producer.responses)
                /\ ExtractCompanyName(fan.combined[k1]) = ExtractCompanyName(fan.combined[k2])

====
